---- MODULE Spec2Model ----
(***************************************************************************)
(* Presence registry and notification mailbox of the worker in             *)
(* src/src/index.js.                                                        *)
(*                                                                         *)
(* The worker keeps two process-wide Maps, activeUsers and                  *)
(* pendingNotifications, and one async fetch handler.  A handler runs       *)
(* without interruption up to its `await request.json()` / `await           *)
(* request.text()`, where it is suspended and other handlers may run, and   *)
(* then without interruption to its return.  The model has one action for   *)
(* the part before the await (Suspend), one action per route for the part   *)
(* after it, and one action per route that never awaits.                    *)
(*                                                                         *)
(* A suspended handler has read nothing of its body yet, so the body is     *)
(* drawn when the handler resumes.  The clock may advance between any two   *)
(* steps, and by up to MaxSkew between two Date.now() reads of one step.    *)
(*                                                                         *)
(* response and before are history variables: the answer of the handler    *)
(* step just taken and the state that step started from.  A clock tick      *)
(* resets them, so a state whose response names a path is the state right   *)
(* after that handler step.                                                 *)
(*                                                                         *)
(* Strings are sequences of one-character strings, so that trim() is        *)
(* computed and not assumed.  Times are milliseconds.                       *)
(***************************************************************************)
EXTENDS Integers, Sequences, FiniteSets, Bags, TLC

VARIABLES
    now,                    \* the value Date.now() returns
    activeUsers,            \* the Map of line 8, as the sequence of its values in insertion order
    pendingNotifications,   \* the Map of line 11, as a function from its keys
    inflight,               \* bag of the paths of the handlers suspended at their await
    response,               \* what the step just taken answered, with the route and username it answered to
    before                  \* the clock and the two Maps as the handler step just taken found them

vars == <<now, activeUsers, pendingNotifications, inflight, response, before>>

----------------------------------------------------------------------------
(* Program constants *)

ADMIN_USERNAME == <<"a", "d", "m", "i", "n", "0", "7", "0", "7">>

timeout == 10000

----------------------------------------------------------------------------
(* Bounds of the model *)

\* how many handlers may be suspended at their await at once
MaxInFlight == 1

\* how far the clock may advance between two Date.now() reads of one handler step
MaxSkew == 1

\* the handlers suspended at once in the runs about interleaving
MaxConcurrent == 2

\* the clock readings the model distinguishes
TimePoints == {0, 5000, 9000, 15000, 15001}

\* the clock readings of the runs with two usernames
FewTimePoints == {5000, 15000, 15001}

bob == <<"b", "o", "b">>

\* the username values requests carry
Usernames == {<<>>, bob, ADMIN_USERNAME}

\* the username values of the runs with all the clock readings
OneUsername == {<<>>, bob}

\* usernames with white space: a blank one, and bob followed by a space
blank == <<" ">>
bobSpace == <<"b", "o", "b", " ">>

\* the username values of the runs about trimming
PaddedUsernames == {<<>>, blank, bob, bobSpace}

\* the clock readings of the runs about trimming
TwoTimePoints == {5000, 15001}

Methods == {"OPTIONS", "GET", "POST"}

\* the routes whose handler awaits the request body
AwaitPaths == {"/login", "/heartbeat", "/logout", "/notify", "/check-notification"}

\* request bodies: no bytes, bytes that are not JSON, a JSON object without
\* a username, a JSON object with a string username
EmptyBody == [kind |-> "empty", hasUsername |-> FALSE, username |-> <<>>]
BadBody == [kind |-> "bad", hasUsername |-> FALSE, username |-> <<>>]
JsonBody(has, u) == [kind |-> "json", hasUsername |-> has, username |-> u]
BodiesOf(names) == {EmptyBody, BadBody, JsonBody(FALSE, <<>>)} \cup {JsonBody(TRUE, u) : u \in names}

\* the requests no route accepts, and the preflights, that the runs send
StrayRequests == {<<"POST", "/users">>, <<"GET", "/other">>}
PreflightPaths == {"/login"}


----------------------------------------------------------------------------
(* String.prototype.trim *)

IsWhiteSpace(c) == c = " "

RECURSIVE trimStart(_)
trimStart(s) ==
    IF s # <<>> /\ IsWhiteSpace(Head(s)) THEN trimStart(Tail(s)) ELSE s

RECURSIVE trimEnd(_)
trimEnd(s) ==
    IF s # <<>> /\ IsWhiteSpace(s[Len(s)]) THEN trimEnd(SubSeq(s, 1, Len(s) - 1)) ELSE s

\* variant of trim: the string as it is
trimNothing(s) == s

trim(s) == trimEnd(trimStart(s))

\* !username, for a username that is undefined or a string
Falsy(body) == ~body.hasUsername \/ body.username = <<>>

----------------------------------------------------------------------------
(* Map operations on activeUsers (a Map iterates in insertion order; set on *)
(* an existing key keeps the key's position)                                *)

Keys(users) == {users[i].username : i \in DOMAIN users}

has(users, u) == u \in Keys(users)

IndexOf(users, u) == CHOOSE i \in DOMAIN users : users[i].username = u

get(users, u) == users[IndexOf(users, u)]

set(users, u, data) ==
    IF has(users, u) THEN [users EXCEPT ![IndexOf(users, u)] = data]
    ELSE Append(users, data)

\* variant of delete: the Map is cleared
deleteAll(users, u) == <<>>

delete(users, u) == SelectSeq(users, LAMBDA data : data.username # u)

\* Map operations on pendingNotifications
\* variant of setNotification: a pending notification is not overwritten
setNotificationIfAbsent(notes, u, n) ==
    [k \in DOMAIN notes \cup {u} |-> IF k \in DOMAIN notes THEN notes[k] ELSE n]

setNotification(notes, u, n) ==
    [k \in DOMAIN notes \cup {u} |-> IF k = u THEN n ELSE notes[k]]

\* variant of deleteNotification: nothing is deleted
deleteNotificationKeeps(notes, u) == notes

deleteNotification(notes, u) == [k \in DOMAIN notes \ {u} |-> notes[k]]

Notification(t) == [type |-> "sound", timestamp |-> t]

----------------------------------------------------------------------------
(* Date.now() *)

\* the values a Date.now() may return when an earlier read of the same
\* handler step returned t
Reads(t) == {t2 \in TimePoints : t <= t2 /\ t2 <= t + MaxSkew}

----------------------------------------------------------------------------
(* cleanupInactiveUsers, lines 37-46: one clock read, then every entry     *)
(* with now - lastSeen > timeout is deleted                                 *)

\* variant of Expired: the entry at exactly the timeout is expired too
ExpiredAtTimeout(data, t) == t - data.lastSeen >= timeout

\* variant of Expired: no entry expires
ExpiredNever(data, t) == FALSE

\* variant of Expired: the timeout counts from loginTime
ExpiredSinceLogin(data, t) == t - data.loginTime > timeout

Expired(data, t) == t - data.lastSeen > timeout

\* variant of cleanupInactiveUsers: one call deletes the first expired entry only
cleanupFirstExpired(users, t) ==
    LET expired == {i \in DOMAIN users : Expired(users[i], t)}
        first   == CHOOSE i \in expired : \A j \in expired : i <= j
    IN  IF expired = {} THEN users
        ELSE [i \in 1..(Len(users) - 1) |-> IF i < first THEN users[i] ELSE users[i + 1]]

cleanupInactiveUsers(users, t) == SelectSeq(users, LAMBDA data : ~Expired(data, t))

----------------------------------------------------------------------------
(* Responses *)

NoJson == [null |-> TRUE]

jsonResponse(data, status) == [status |-> status, json |-> data]

handleOptions == [status |-> 200, json |-> NoJson]

\* a response, with the method, the path and the username of the request it answers
Answer(method, path, body, r) ==
    [method |-> method, path |-> path, username |-> body.username,
     status |-> r.status, json |-> r.json]

\* the step taken was no handler's: nothing is answered
NoResponse == [method |-> "", path |-> "", username |-> <<>>, status |-> 0, json |-> NoJson]

\* the step taken suspended the handler of path: nothing is answered yet
Pending(path) == [method |-> "POST", path |-> path, username |-> <<>>, status |-> 0, json |-> NoJson]

NoNotes == [k \in {} |-> Notification(0)]

----------------------------------------------------------------------------
InitAt(t) ==
    /\ now = t
    /\ activeUsers = <<>>
    /\ pendingNotifications = NoNotes
    /\ inflight = EmptyBag
    /\ response = NoResponse
    /\ before = [at |-> t, users |-> <<>>, notes |-> NoNotes]

\* the clock advances
Tick(times) ==
    /\ \E t \in times : t > now /\ now' = t
    /\ response' = NoResponse
    /\ before' = [at |-> now', users |-> activeUsers, notes |-> pendingNotifications]
    /\ UNCHANGED <<activeUsers, pendingNotifications, inflight>>

\* every handler step records the state it starts from
Snapshot == before' = [at |-> now, users |-> activeUsers, notes |-> pendingNotifications]

\* lines 55-57: a preflight returns before the sweep
Options(path) ==
    /\ Snapshot
    /\ response' = Answer("OPTIONS", path, EmptyBody, handleOptions)
    /\ UNCHANGED <<now, activeUsers, pendingNotifications, inflight>>

\* lines 60-65, 92, 115, 146, 178: the sweep, then the handler is suspended
\* reading the body
Suspend(path, max) ==
    /\ path \in AwaitPaths
    /\ Snapshot
    /\ BagCardinality(inflight) < max
    /\ activeUsers' = cleanupInactiveUsers(activeUsers, now)
    /\ inflight' = inflight (+) SetToBag({path})
    /\ response' = Pending(path)
    /\ UNCHANGED <<now, pendingNotifications>>

\* what a handler resumed from its await has in common
Resume(path) ==
    /\ BagIn(path, inflight)
    /\ inflight' = inflight (-) SetToBag({path})
    /\ Snapshot

\* lines 76-80: the entry is written whether or not the key has one; t1 and t2
\* are the two clock reads, of lastSeen and of loginTime
login(users, trimmedUsername, t1, t2) ==
    set(users, trimmedUsername,
        [username |-> trimmedUsername, lastSeen |-> t1, loginTime |-> t2])

\* variant of heartbeat: an unknown username is not registered
heartbeatKnownOnly(users, username, t1, t2) ==
    IF has(users, username)
    THEN set(users, username, [get(users, username) EXCEPT !.lastSeen = t1])
    ELSE users

\* lines 98-106: t1 is the clock read of lastSeen, t2 the read of loginTime
\* that follows it when the entry is new
heartbeat(users, username, t1, t2) ==
    IF has(users, username)
    THEN set(users, username, [get(users, username) EXCEPT !.lastSeen = t1])
    ELSE set(users, username, [username |-> username, lastSeen |-> t1, loginTime |-> t2])

\* variant of notifyFound: no presence test
notifyFoundAlways(users, username) == TRUE

\* line 152
notifyFound(users, username) == has(users, username)

InternalError == jsonResponse([error |-> "Internal server error"], 500)

\* variant of isAdmin: no username is the admin's
isAdminNever(trimmedUsername) == FALSE

\* line 72
isAdmin(trimmedUsername) == trimmedUsername = ADMIN_USERNAME

\* lines 64-88
Login(body) ==
    /\ Resume("/login")
    /\ IF body.kind # "json"
       THEN /\ response' = Answer("POST", "/login", body, InternalError)
            /\ UNCHANGED <<now, activeUsers, pendingNotifications>>
       ELSE IF Falsy(body) \/ trim(body.username) = <<>>
       THEN /\ response' = Answer("POST", "/login", body,
                            jsonResponse([success |-> FALSE, error |-> "Invalid username"], 400))
            /\ UNCHANGED <<now, activeUsers, pendingNotifications>>
       ELSE LET trimmedUsername == trim(body.username)
            IN  /\ IF ~isAdmin(trimmedUsername)
                   THEN \E t2 \in Reads(now) :
                          /\ activeUsers' = login(activeUsers, trimmedUsername, now, t2)
                          /\ now' = t2
                   ELSE UNCHANGED <<now, activeUsers>>
                /\ response' = Answer("POST", "/login", body,
                                jsonResponse([success |-> TRUE, isAdmin |-> isAdmin(trimmedUsername),
                                              username |-> trimmedUsername], 200))
                /\ UNCHANGED pendingNotifications

\* lines 91-109
Heartbeat(body) ==
    /\ Resume("/heartbeat")
    /\ IF body.kind # "json"
       THEN /\ response' = Answer("POST", "/heartbeat", body, InternalError)
            /\ UNCHANGED <<now, activeUsers, pendingNotifications>>
       ELSE IF Falsy(body)
       THEN /\ response' = Answer("POST", "/heartbeat", body,
                            jsonResponse([success |-> FALSE, error |-> "Username required"], 400))
            /\ UNCHANGED <<now, activeUsers, pendingNotifications>>
       ELSE LET username == body.username
            IN  /\ IF has(activeUsers, username)
                   THEN /\ activeUsers' = heartbeat(activeUsers, username, now, now)
                        /\ UNCHANGED now
                   ELSE \E t2 \in Reads(now) :
                          /\ activeUsers' = heartbeat(activeUsers, username, now, t2)
                          /\ now' = t2
                /\ response' = Answer("POST", "/heartbeat", body,
                                jsonResponse([success |-> TRUE], 200))
                /\ UNCHANGED pendingNotifications

\* variant of Logout: the user's pending notification goes with the entry
LogoutClearsMailbox(body) ==
    /\ Resume("/logout")
    /\ IF body.kind = "json" /\ ~Falsy(body)
       THEN /\ activeUsers' = delete(activeUsers, body.username)
            /\ pendingNotifications' = deleteNotification(pendingNotifications, body.username)
       ELSE UNCHANGED <<activeUsers, pendingNotifications>>
    /\ response' = Answer("POST", "/logout", body, jsonResponse([success |-> TRUE], 200))
    /\ UNCHANGED now

\* lines 112-127: a body that does not parse is caught at line 122
Logout(body) ==
    /\ Resume("/logout")
    /\ IF body.kind = "json" /\ ~Falsy(body)
       THEN activeUsers' = delete(activeUsers, body.username)
       ELSE UNCHANGED activeUsers
    /\ response' = Answer("POST", "/logout", body, jsonResponse([success |-> TRUE], 200))
    /\ UNCHANGED <<now, pendingNotifications>>

\* lines 130-142, after the sweep of line 60
Users ==
    LET swept == cleanupInactiveUsers(activeUsers, now)
        users == [i \in DOMAIN swept |->
                    [username |-> swept[i].username, lastSeen |-> swept[i].lastSeen,
                     loginTime |-> swept[i].loginTime]]
    IN  /\ Snapshot
        /\ activeUsers' = swept
        /\ response' = Answer("GET", "/users", EmptyBody,
                        jsonResponse([success |-> TRUE, users |-> users, count |-> Len(users)], 200))
        /\ UNCHANGED <<now, pendingNotifications, inflight>>

\* lines 145-161
Notify(body) ==
    /\ Resume("/notify")
    /\ IF body.kind # "json"
       THEN /\ response' = Answer("POST", "/notify", body, InternalError)
            /\ UNCHANGED <<now, activeUsers, pendingNotifications>>
       ELSE IF Falsy(body)
       THEN /\ response' = Answer("POST", "/notify", body,
                            jsonResponse([success |-> FALSE, error |-> "Username required"], 400))
            /\ UNCHANGED <<now, activeUsers, pendingNotifications>>
       ELSE IF notifyFound(activeUsers, body.username)
       THEN /\ pendingNotifications' =
                   setNotification(pendingNotifications, body.username, Notification(now))
            /\ response' = Answer("POST", "/notify", body, jsonResponse([success |-> TRUE], 200))
            /\ UNCHANGED <<now, activeUsers>>
       ELSE /\ response' = Answer("POST", "/notify", body,
                            jsonResponse([success |-> FALSE, error |-> "User not found"], 404))
            /\ UNCHANGED <<now, activeUsers, pendingNotifications>>

\* the clock readings of a loop over n entries, one read per entry
LoopReads(n) ==
    {ts \in [1..n -> Reads(now)] : \A i, j \in 1..n : i <= j => ts[i] <= ts[j]}

\* variant of setAll: the loop stops after one entry
setFirstOnly(notes, users, ts, i) ==
    IF i > Len(users) THEN notes
    ELSE setNotification(notes, users[i].username, Notification(ts[i]))

RECURSIVE setAll(_, _, _, _)
setAll(notes, users, ts, i) ==
    IF i > Len(users) THEN notes
    ELSE setAll(setNotification(notes, users[i].username, Notification(ts[i])), users, ts, i + 1)

\* lines 164-174, after the sweep of line 60
NotifyAll ==
    LET swept == cleanupInactiveUsers(activeUsers, now)
    IN  \E ts \in LoopReads(Len(swept)) :
          /\ Snapshot
          /\ activeUsers' = swept
          /\ pendingNotifications' = setAll(pendingNotifications, swept, ts, 1)
          /\ now' = IF Len(swept) = 0 THEN now ELSE ts[Len(swept)]
          /\ response' = Answer("POST", "/notify-all", EmptyBody,
                          jsonResponse([success |-> TRUE, notified |-> Len(swept)], 200))
          /\ UNCHANGED inflight

\* variant of CheckNotification: a poll counts as a sign of life
CheckNotificationTouches(body) ==
    /\ Resume("/check-notification")
    /\ body.kind = "json" /\ ~Falsy(body)
    /\ activeUsers' = heartbeat(activeUsers, body.username, now, now)
    /\ pendingNotifications' = deleteNotification(pendingNotifications, body.username)
    /\ response' = Answer("POST", "/check-notification", body,
                    jsonResponse([success |-> TRUE,
                                  hasNotification |-> body.username \in DOMAIN pendingNotifications], 200))
    /\ UNCHANGED now

\* lines 177-191
CheckNotification(body) ==
    /\ Resume("/check-notification")
    /\ IF body.kind # "json"
       THEN /\ response' = Answer("POST", "/check-notification", body, InternalError)
            /\ UNCHANGED <<now, activeUsers, pendingNotifications>>
       ELSE IF Falsy(body)
       THEN /\ response' = Answer("POST", "/check-notification", body,
                            jsonResponse([success |-> FALSE, error |-> "Username required"], 400))
            /\ UNCHANGED <<now, activeUsers, pendingNotifications>>
       ELSE IF body.username \in DOMAIN pendingNotifications
       THEN LET notification == pendingNotifications[body.username]
            IN  /\ pendingNotifications' = deleteNotification(pendingNotifications, body.username)
                /\ response' = Answer("POST", "/check-notification", body,
                                jsonResponse([success |-> TRUE, hasNotification |-> TRUE,
                                              notification |-> notification], 200))
                /\ UNCHANGED <<now, activeUsers>>
       ELSE /\ response' = Answer("POST", "/check-notification", body,
                            jsonResponse([success |-> TRUE, hasNotification |-> FALSE], 200))
            /\ UNCHANGED <<now, activeUsers, pendingNotifications>>

\* lines 194-196, after the sweep of line 60: any method but OPTIONS
Health(method) ==
    LET swept == cleanupInactiveUsers(activeUsers, now)
    IN  /\ method # "OPTIONS"
        /\ Snapshot
        /\ activeUsers' = swept
        /\ response' = Answer(method, "/health", EmptyBody,
                        jsonResponse([status |-> "ok", activeUsers |-> Len(swept)], 200))
        /\ UNCHANGED <<now, pendingNotifications, inflight>>

\* the method and path pairs one of the route tests of lines 64-194 accepts
Routed(method, path) ==
    \/ method = "POST" /\ path \in AwaitPaths \cup {"/notify-all"}
    \/ method = "GET" /\ path = "/users"
    \/ path = "/health"

\* lines 198-199, after the sweep of line 60
NotFound(method, path) ==
    /\ method # "OPTIONS"
    /\ ~Routed(method, path)
    /\ Snapshot
    /\ activeUsers' = cleanupInactiveUsers(activeUsers, now)
    /\ response' = Answer(method, path, EmptyBody, jsonResponse([error |-> "Not found"], 404))
    /\ UNCHANGED <<now, pendingNotifications, inflight>>

\* the steps of runs whose requests carry the usernames `names`, whose clock
\* reads are in `times`, and with at most `max` handlers suspended at once
NextOn(names, times, max) ==
    \/ Tick(times)
    \/ \E path \in PreflightPaths : Options(path)
    \/ \E path \in AwaitPaths : Suspend(path, max)
    \/ \E body \in BodiesOf(names) : Login(body)
    \/ \E body \in BodiesOf(names) : Heartbeat(body)
    \/ \E body \in BodiesOf(names) : Logout(body)
    \/ Users
    \/ \E body \in BodiesOf(names) : Notify(body)
    \/ NotifyAll
    \/ \E body \in BodiesOf(names) : CheckNotification(body)
    \/ \E method \in Methods \ {"OPTIONS"} : Health(method)
    \/ \E r \in StrayRequests : NotFound(r[1], r[2])

Init == InitAt(5000)

Next == NextOn(Usernames, FewTimePoints, MaxInFlight)

\* two usernames, three clock readings
Spec == Init /\ [][Next]_vars

InitBob == InitAt(0)

NextBob == NextOn(OneUsername, TimePoints, MaxInFlight)

\* one username, all the clock readings
SpecBob == InitBob /\ [][NextBob]_vars

InitTrim == InitAt(5000)

NextTrim == NextOn(PaddedUsernames, TwoTimePoints, MaxInFlight)

\* usernames with white space at their ends, two clock readings
SpecTrim == InitTrim /\ [][NextTrim]_vars

InitConcurrent == InitAt(5000)

NextConcurrent == NextOn(OneUsername, TwoTimePoints, MaxConcurrent)

\* one username, two clock readings, handlers suspended side by side
SpecConcurrent == InitConcurrent /\ [][NextConcurrent]_vars

\* a request whose handling runs the sweep of line 60
Sweeps ==
    \/ \E path \in AwaitPaths : Suspend(path, MaxInFlight)
    \/ Users
    \/ NotifyAll
    \/ \E method \in Methods \ {"OPTIONS"} : Health(method)
    \/ \E r \in StrayRequests : NotFound(r[1], r[2])

\* the runs of SpecBob in which the clock goes on to its last reading and
\* requests other than preflights keep arriving
SpecLazy == InitBob /\ [][NextBob]_vars /\ WF_vars(Tick(TimePoints)) /\ WF_vars(Sweeps)

----------------------------------------------------------------------------
(* Properties.  A state in which response names a path is the state right  *)
(* after a handler step, and before is the state that step started from.   *)

Entries(users) == {users[i] : i \in DOMAIN users}

Returned(path) == response.method = "POST" /\ response.path = path /\ response.status # 0

\* the step just taken ran the sweep of line 60
SweepRan ==
    /\ response.method \in {"GET", "POST"}
    /\ \/ response.status = 0
       \/ response.path \in {"/users", "/notify-all", "/health"}
       \/ response.status = 404 /\ response.path # "/notify"

\* C1: the sweep of a request that starts at time t deletes exactly the
\* entries with t - lastSeen > 10000 ms and leaves every other entry as it
\* was: an entry with t - lastSeen = 10000 stays, one with t - lastSeen =
\* 10001 is gone.
C1_SweepRemovesExactlyExpired ==
    SweepRan =>
        /\ \A data \in Entries(before.users) :
              IF before.at - data.lastSeen > 10000
              THEN ~has(activeUsers, data.username)
              ELSE data \in Entries(activeUsers)
        /\ Entries(activeUsers) \subseteq Entries(before.users)
        /\ Len(activeUsers) = Cardinality(Entries(activeUsers))

\* a sweep at 15001 deleted an entry last seen at 5000 and kept another entry
C1_Witness ==
    /\ SweepRan
    /\ before.at = 15001
    /\ \E data \in Entries(before.users) :
          data.lastSeen = 5000 /\ ~has(activeUsers, data.username)
    /\ activeUsers # <<>>

\* C2: a /check-notification for u answers hasNotification true, with the
\* notification that was pending, exactly when one was pending for u, and
\* leaves none pending for u; a successful /notify for u leaves one pending.
\* So the check after a notify returns it and the check after that returns
\* none.
C2_NotificationDeliveredOnce ==
    /\ (Returned("/notify") /\ response.status = 200) =>
          response.username \in DOMAIN pendingNotifications
    /\ (Returned("/check-notification") /\ response.status = 200) =>
          /\ response.username \notin DOMAIN pendingNotifications
          /\ response.json.hasNotification = (response.username \in DOMAIN before.notes)
          /\ response.json.hasNotification =>
                response.json.notification = before.notes[response.username]
          /\ \A u \in DOMAIN before.notes \ {response.username} :
                u \in DOMAIN pendingNotifications /\ pendingNotifications[u] = before.notes[u]

\* a poll of bob returned the notification set at the same clock reading
C2_Witness ==
    /\ Returned("/check-notification")
    /\ response.status = 200
    /\ response.username = bob
    /\ response.json.hasNotification
    /\ response.json.notification.timestamp = before.at

\* C3: every key of the mailbox holds one notification of type sound; a
\* /notify or /notify-all leaves, for each user it notifies, the one
\* notification stamped with the clock read of this request, whatever was
\* pending before; the poll returns that one record.
C3_OneNotificationPerUser ==
    /\ \A u \in DOMAIN pendingNotifications :
          /\ pendingNotifications[u].type = "sound"
          /\ pendingNotifications[u].timestamp \in TimePoints
    /\ (Returned("/notify") /\ response.status = 200) =>
          pendingNotifications[response.username] = Notification(before.at)
    /\ Returned("/notify-all") =>
          \A data \in Entries(activeUsers) :
             /\ data.username \in DOMAIN pendingNotifications
             /\ pendingNotifications[data.username].timestamp \in before.at..now
    /\ (Returned("/check-notification") /\ response.status = 200
           /\ response.json.hasNotification) =>
          response.json.notification.timestamp = before.notes[response.username].timestamp

\* a /notify at t2 replaced the notification pending since t1 < t2
C3_Witness ==
    /\ Returned("/notify")
    /\ response.status = 200
    /\ response.username \in DOMAIN before.notes
    /\ before.notes[response.username].timestamp < before.at
    /\ pendingNotifications[response.username].timestamp = before.at

\* C4: /notify-all writes a notification for exactly the keys the registry
\* holds after the request's sweep and answers their number; every other
\* key of the mailbox is as before; a login or heartbeat never writes the
\* mailbox, so who joins later has nothing pending from it.
C4_BroadcastToThosePresent ==
    /\ Returned("/notify-all") =>
          /\ response.status = 200
          /\ response.json.notified = Len(activeUsers)
          /\ Entries(activeUsers) =
                {data \in Entries(before.users) : before.at - data.lastSeen <= 10000}
          /\ DOMAIN pendingNotifications = DOMAIN before.notes \cup Keys(activeUsers)
          /\ \A u \in DOMAIN pendingNotifications :
                IF u \in Keys(activeUsers)
                THEN pendingNotifications[u].timestamp \in before.at..now
                ELSE pendingNotifications[u] = before.notes[u]
    /\ (Returned("/login") \/ Returned("/heartbeat")) =>
          pendingNotifications = before.notes

\* a /notify-all found two entries, swept one and notified the other alone
C4_Witness ==
    /\ Returned("/notify-all")
    /\ Len(before.users) = 2
    /\ response.json.notified = 1
    /\ DOMAIN pendingNotifications = Keys(activeUsers)

\* C5: a /notify for a username without an entry answers 404 and leaves the
\* mailbox as it was; a /notify-all with no entry left answers notified 0
\* and leaves the mailbox as it was.
C5_NotifyAbsentIsNotFound ==
    /\ (Returned("/notify") /\ response.username # <<>>
           /\ ~has(before.users, response.username)) =>
          /\ response.status = 404
          /\ response.json = [success |-> FALSE, error |-> "User not found"]
          /\ pendingNotifications = before.notes
    /\ (Returned("/notify-all") /\ activeUsers = <<>>) =>
          /\ response.json.notified = 0
          /\ pendingNotifications = before.notes

\* a /notify for bob, who has no entry, answered 404 while another user is present
C5_Witness ==
    /\ Returned("/notify")
    /\ response.username = bob
    /\ response.status = 404
    /\ activeUsers # <<>>

\* C6: the admin identity never has an entry in the registry, is never
\* listed by /users and never counted by /health.
C6_AdminNeverPresent ==
    /\ ~has(activeUsers, ADMIN_USERNAME)
    /\ (response.path = "/users" /\ response.status = 200) =>
          \A i \in DOMAIN response.json.users :
             response.json.users[i].username # ADMIN_USERNAME

\* the key a login or heartbeat request writes
WrittenKey ==
    IF response.path = "/login" THEN trim(response.username) ELSE response.username

\* C7: a login or heartbeat for a username that has an entry sets its
\* lastSeen to the current time and keeps its loginTime.
C7_LoginTimeKept ==
    ((Returned("/login") \/ Returned("/heartbeat")) /\ response.status = 200
        /\ has(before.users, WrittenKey)) =>
       /\ has(activeUsers, WrittenKey)
       /\ get(activeUsers, WrittenKey).lastSeen = before.at
       /\ get(activeUsers, WrittenKey).loginTime = get(before.users, WrittenKey).loginTime

\* C8: every entry has lastSeen >= loginTime.
C8_LastSeenNotBeforeLogin ==
    \A data \in Entries(activeUsers) : data.lastSeen >= data.loginTime

\* C9: a heartbeat with a username succeeds and leaves an entry for it; when
\* there was none, the entry is new, with lastSeen and loginTime read from
\* the clock during this request.
C9_HeartbeatRegisters ==
    (Returned("/heartbeat") /\ response.username # <<>>) =>
       /\ response.status = 200
       /\ response.json = [success |-> TRUE]
       /\ has(activeUsers, response.username)
       /\ ~has(before.users, response.username) =>
             LET data == get(activeUsers, response.username)
             IN  /\ data.username = response.username
                 /\ data.lastSeen = before.at
                 /\ data.loginTime \in before.at..now
                 /\ Entries(activeUsers) = Entries(before.users) \cup {data}

\* a heartbeat of bob, who had no entry, created one
C9_Witness ==
    /\ Returned("/heartbeat")
    /\ response.username = bob
    /\ ~has(before.users, bob)
    /\ has(activeUsers, bob)
    /\ get(activeUsers, bob).lastSeen = now

\* C10: an entry created at t and refreshed by a heartbeat at t + 5000
\* survives every sweep up to t + 15000 and is deleted by a sweep at
\* t + 15001 or later: expiry counts from lastSeen, not from loginTime.
C10_ExpiryFromLastHeartbeat ==
    SweepRan =>
       \A data \in Entries(before.users) :
          data.lastSeen = data.loginTime + 5000 =>
             IF before.at <= data.loginTime + 15000
             THEN data \in Entries(activeUsers)
             ELSE ~has(activeUsers, data.username)

\* bob logged in at 0 and sent a heartbeat at 5000; a sweep at 15001 deleted him
C10_Witness ==
    /\ SweepRan
    /\ before.at = 15001
    /\ \E data \in Entries(before.users) :
          /\ data.username = bob /\ data.loginTime = 0 /\ data.lastSeen = 5000
          /\ ~has(activeUsers, bob)

\* C12: a logout always answers success; it deletes the entry of the
\* username its body names, if there is one, and no other entry; with an
\* empty or unparseable body, or no username, it leaves the registry as it
\* was.
C12_LogoutRemovesOnlyNamed ==
    Returned("/logout") =>
       /\ response.status = 200
       /\ response.json = [success |-> TRUE]
       /\ activeUsers = SelectSeq(before.users, LAMBDA data : data.username # response.username)
       /\ pendingNotifications = before.notes

\* a logout of bob deleted his entry and kept the other one
C12_Witness ==
    /\ Returned("/logout")
    /\ response.username = bob
    /\ has(before.users, bob)
    /\ ~has(activeUsers, bob)
    /\ Len(activeUsers) = 1

\* the entry a resumed handler's presence test reads
Observed ==
    IF response.username # <<>> /\ has(before.users, response.username)
    THEN {get(before.users, response.username)}
    ELSE {}

\* C13: every entry a handler reads is not expired at the moment of the
\* read: the entry the presence test of /notify or /heartbeat finds, and
\* the entries /users, /health and /notify-all list or count.
C13_NoReadOfExpiredEntry ==
    /\ (Returned("/notify") \/ Returned("/heartbeat")) =>
          \A data \in Observed : before.at - data.lastSeen <= 10000
    /\ response.path \in {"/users", "/health", "/notify-all"} =>
          \A data \in Entries(activeUsers) : before.at - data.lastSeen <= 10000

\* C16: a second sweep at the time of a sweep changes nothing: the registry
\* a sweep leaves is the registry a sweep of it at the same time leaves;
\* and a sweep creates no entry and changes no lastSeen or loginTime, every
\* entry it leaves being an entry that was there, in the same order.
C16_SweepIdempotent ==
    SweepRan =>
        /\ cleanupInactiveUsers(activeUsers, before.at) = activeUsers
        /\ cleanupInactiveUsers(cleanupInactiveUsers(before.users, before.at), before.at)
              = cleanupInactiveUsers(before.users, before.at)
        /\ Entries(activeUsers) \subseteq Entries(before.users)
        /\ activeUsers = SelectSeq(before.users, LAMBDA data : data \in Entries(activeUsers))

\* a sweep deleted two expired entries at once
C16_Witness ==
    /\ SweepRan
    /\ Len(before.users) = 2
    /\ \A data \in Entries(before.users) : before.at - data.lastSeen > 10000
    /\ activeUsers = <<>>

\* the username a login stores: the body's username without the white
\* space at its ends
Stripped(s) ==
    LET inner == {i \in DOMAIN s : s[i] # " "}
        lo    == CHOOSE i \in inner : \A j \in inner : i <= j
        hi    == CHOOSE i \in inner : \A j \in inner : j <= i
    IN  IF inner = {} THEN <<>> ELSE SubSeq(s, lo, hi)

\* C17: a login that succeeds answers isAdmin true and leaves the registry
\* as it was when its username, trimmed, is ADMIN_USERNAME; for every other
\* username it answers isAdmin false and the trimmed username has an entry
\* afterwards.
C17_AdminLoginStoresNothing ==
    Returned("/login") /\ Stripped(response.username) # <<>> =>
        /\ response.status = 200
        /\ response.json.success
        /\ IF Stripped(response.username) = ADMIN_USERNAME
           THEN response.json.isAdmin /\ activeUsers = before.users
           ELSE ~response.json.isAdmin /\ has(activeUsers, Stripped(response.username))

\* an admin login answered isAdmin true next to another user's entry
C17_Witness ==
    /\ Returned("/login")
    /\ response.username = ADMIN_USERNAME
    /\ response.json.isAdmin
    /\ has(activeUsers, bob)
    /\ ~has(activeUsers, ADMIN_USERNAME)

\* the step just taken ran the sweep and nothing else that writes
SweepOnly ==
    /\ SweepRan
    /\ response.path # "/notify-all"

\* C18: the sweep, logout, login and heartbeat leave the mailbox as it was;
\* a notification pending for a username is returned by that username's
\* /check-notification whether or not the username has an entry then.
C18_MailboxOutlivesEntry ==
    /\ (SweepOnly \/ Returned("/logout") \/ Returned("/login") \/ Returned("/heartbeat")) =>
          pendingNotifications = before.notes
    /\ Returned("/check-notification") /\ response.username \in DOMAIN before.notes =>
          /\ response.status = 200
          /\ response.json.hasNotification
          /\ response.json.notification = before.notes[response.username]

\* a poll for bob returned the notification written while he had an
\* entry, at a time when he had none
C18_Witness ==
    /\ Returned("/check-notification")
    /\ response.username = bob
    /\ bob \in DOMAIN before.notes
    /\ response.json = [success |-> TRUE, hasNotification |-> TRUE,
                        notification |-> before.notes[bob]]
    /\ ~has(before.users, bob)

\* bob's notification survived his logout: it was pending after the
\* logout deleted his entry
C18_WitnessLogout ==
    /\ Returned("/logout")
    /\ response.username = bob
    /\ has(before.users, bob)
    /\ ~has(activeUsers, bob)
    /\ bob \in DOMAIN pendingNotifications

\* C19: the handler of /check-notification leaves the registry as it found
\* it, creating no entry and refreshing no lastSeen; it answers success
\* with hasNotification false for a username with no entry and no
\* notification; and the sweep at the start of its request deletes the
\* expired entries like that of any request.
C19_PollingIsNotPresence ==
    /\ Returned("/check-notification") =>
          /\ activeUsers = before.users
          /\ response.username # <<>> /\ response.username \notin DOMAIN before.notes =>
                /\ response.status = 200
                /\ response.json = [success |-> TRUE, hasNotification |-> FALSE]
    /\ response = Pending("/check-notification") =>
          activeUsers = SelectSeq(before.users, LAMBDA data : before.at - data.lastSeen <= 10000)

\* a poll for bob, who has an entry, answered and left his lastSeen behind
\* the clock
C19_Witness ==
    /\ Returned("/check-notification")
    /\ response.username = bob
    /\ response.status = 200
    /\ has(activeUsers, bob)
    /\ get(activeUsers, bob).lastSeen < before.at

\* the sweep that starts a /check-notification request deleted bob's entry
C19_WitnessExpires ==
    /\ response = Pending("/check-notification")
    /\ has(before.users, bob)
    /\ ~has(activeUsers, bob)

\* C11: a login whose username is missing, empty or only white space
\* answers 400 and leaves the registry and the mailbox as they were; any
\* other login stores its entry under the username without the white space
\* at its ends, and answers with that username; heartbeat, logout, notify
\* and check-notification use the username as the body gives it.
C11_OnlyLoginTrims ==
    /\ Returned("/login") /\ response.status # 500 =>
          IF Stripped(response.username) = <<>>
          THEN /\ response.status = 400
               /\ activeUsers = before.users
               /\ pendingNotifications = before.notes
          ELSE /\ response.status = 200
               /\ response.json.username = Stripped(response.username)
               /\ Stripped(response.username) # ADMIN_USERNAME =>
                     Keys(activeUsers) = Keys(before.users) \cup {Stripped(response.username)}
    /\ Returned("/login") /\ response.status = 500 =>
          /\ response.username = <<>>
          /\ activeUsers = before.users
          /\ pendingNotifications = before.notes
    /\ Returned("/heartbeat") /\ response.username # <<>> =>
          Keys(activeUsers) = Keys(before.users) \cup {response.username}
    /\ Returned("/logout") /\ response.username # <<>> =>
          Keys(activeUsers) = Keys(before.users) \ {response.username}
    /\ Returned("/notify") /\ response.username # <<>> =>
          /\ response.status = 200 <=> response.username \in Keys(before.users)
          /\ response.status = 200 =>
                DOMAIN pendingNotifications = DOMAIN before.notes \cup {response.username}
    /\ Returned("/check-notification") /\ response.username # <<>> =>
          /\ response.json.hasNotification <=> response.username \in DOMAIN before.notes
          /\ DOMAIN pendingNotifications = DOMAIN before.notes \ {response.username}

\* a login as "bob " answered "bob" and stored the entry of bob next to
\* the entry a heartbeat had stored under "bob "
C11_Witness ==
    /\ Returned("/login")
    /\ response.username = bobSpace
    /\ response.json.username = bob
    /\ has(activeUsers, bob)
    /\ has(activeUsers, bobSpace)
    /\ ~has(before.users, bob)

\* a login with a username of white space only answered 400
C11_WitnessBlank ==
    /\ Returned("/login")
    /\ response.username = blank
    /\ response.status = 400
    /\ activeUsers # <<>>

\* a notify for "bob " answered 404 while bob had an entry
C11_WitnessDistinctKeys ==
    /\ Returned("/notify")
    /\ response.username = bobSpace
    /\ response.status = 404
    /\ has(activeUsers, bob)

\* C14: of the /check-notification handlers suspended side by side for one
\* username, the one that resumes while a notification is pending returns
\* it and leaves none pending in the same step, so a handler that resumes
\* after it, with no notify in between, answers hasNotification false.
C14_ConcurrentPollsDeliverOnce ==
    (Returned("/check-notification") /\ response.username # <<>>) =>
        IF response.username \in DOMAIN before.notes
        THEN /\ response.json.hasNotification
             /\ response.json.notification = before.notes[response.username]
             /\ pendingNotifications =
                   [u \in DOMAIN before.notes \ {response.username} |-> before.notes[u]]
        ELSE /\ ~response.json.hasNotification
             /\ pendingNotifications = before.notes

\* one of two polls for bob returned his notification while the other was
\* still suspended
C14_Witness ==
    /\ Returned("/check-notification")
    /\ response.username = bob
    /\ response.json.hasNotification
    /\ BagIn("/check-notification", inflight)

\* C15: a /notify that answers success found an entry for its username in
\* the registry of the very step that writes the notification, whatever
\* handlers ran while it was suspended; one that finds no entry answers 404
\* and writes nothing; the registry is as the step found it.
C15_NotifyWritesForPresentUser ==
    (Returned("/notify") /\ response.username # <<>>) =>
        /\ activeUsers = before.users
        /\ IF response.status = 200
           THEN /\ has(activeUsers, response.username)
                /\ response.username \in DOMAIN pendingNotifications
                /\ pendingNotifications[response.username].timestamp = before.at
           ELSE /\ response.status = 404
                /\ ~has(activeUsers, response.username)
                /\ pendingNotifications = before.notes

\* a notify for bob answered success while a logout was suspended
C15_Witness ==
    /\ Returned("/notify")
    /\ response.username = bob
    /\ response.status = 200
    /\ BagIn("/logout", inflight)

\* a notify for bob answered 404 at the first clock reading, when no entry
\* can have expired: his entry was deleted by a logout
C15_WitnessLoggedOut ==
    /\ Returned("/notify")
    /\ response.username = bob
    /\ response.status = 404
    /\ before.at = 5000
    /\ BagIn("/heartbeat", inflight)

\* the step just taken is a login or heartbeat handler of bob's
SignOfLife ==
    /\ Returned("/login") \/ Returned("/heartbeat")
    /\ response.username = bob

\* C20: a preflight deletes no entry; an entry appears only by a login or
\* a heartbeat of its user; and when bob's logins and heartbeats stop (here:
\* none from the clock reading 5000 on), while the clock goes on and
\* requests that sweep keep arriving, his entry is deleted in the end and
\* stays deleted.
C20_LazyExpiryHappens ==
    /\ [](response.method = "OPTIONS" =>
             activeUsers = before.users /\ pendingNotifications = before.notes)
    /\ [](has(activeUsers, bob) /\ ~has(before.users, bob) => SignOfLife)
    /\ [](now >= 5000 => ~SignOfLife) => <>[](~has(activeUsers, bob))

\* a /health request deleted the entry of bob, who had been quiet since
\* before the clock reading 5000
C20_Witness ==
    /\ response.path = "/health"
    /\ has(before.users, bob)
    /\ get(before.users, bob).lastSeen < 5000
    /\ ~has(activeUsers, bob)

====
